---- MODULE Spec2Model ----
(***************************************************************************)
(* Workflow orchestrator of local_agents                                   *)
(* (src/src/local_agents/workflows/orchestrator.py), together with the     *)
(* parts of its collaborators that decide its behaviour: the TaskResult    *)
(* constructor (base.py) and the workflow section of the configuration    *)
(* (config.py).  The class-level response cache of OllamaClient           *)
(* (ollama_client.py), shared by the agents' clients, is modelled with its *)
(* lock and the threads that call its methods.                             *)
(*                                                                         *)
(* One call of execute_workflow / create_custom_workflow is modelled as a  *)
(* call action (everything up to the step loop), one action per loop       *)
(* iteration (the agent's execute call is the only blocking point, its     *)
(* outcome is chosen by the environment) and a return action.  Calls      *)
(* follow one another on the same Workflow instance without limit.         *)
(*                                                                         *)
(* Workflow.completed_steps (written at orchestrator.py 291-292) is read   *)
(* only by the string form of _check_dependencies, which neither public    *)
(* method reaches; it is not carried as a variable.                        *)
(***************************************************************************)
EXTENDS Integers, Sequences, FiniteSets, TLC

VARIABLES
    config,            \* config_manager._config.workflows (WorkflowConfig)
    agents,            \* Workflow.agents: the registered agent types
    current_context,   \* Workflow.current_context
    caller_context,    \* the object the caller passed as initial_context / context
    aliased,           \* current_context is that very object (no copy was made)
    pc,                \* position of the call in progress
    op,                \* which public method is running
    workflow_name,     \* argument / "custom"
    task,              \* argument
    stream,            \* argument
    steps_arg,         \* argument "steps" of create_custom_workflow
    initial_context_copy, \* local of the call
    workflow_steps,    \* local: the resolved list of WorkflowStep
    idx,               \* local: loop index (1-based)
    results,           \* local: list of TaskResult
    invocations,       \* log of agent.execute calls made by the call in progress
    ret,               \* the WorkflowResult returned (when pc = "returned")
    exc,               \* the exception that left the call (when pc = "raised")
    passed_context,    \* the caller's object as it was when it was passed in
    kept,              \* what the caller holds on to from the call before
    max_concurrent_agents, \* Workflow.max_concurrent_agents
    ram_gb,            \* arguments of the last optimize_for_hardware call
    cpu_cores,
    response_cache,    \* OllamaClient._response_cache: key -> (response, timestamp)
    cache_lock,        \* OllamaClient._cache_lock: the thread holding it, or NoThread
    thread_pc,         \* per thread: position in the cache method it is running
    thread_key,        \* per thread: the cache_key argument
    oldest_key,        \* per thread: local oldest_key of _cache_response ("" if unset)
    now                \* time.time()

hardware_vars == <<max_concurrent_agents, ram_gb, cpu_cores>>
cache_vars == <<response_cache, cache_lock, thread_pc, thread_key, oldest_key, now>>

vars == <<config, agents, current_context, caller_context,
          aliased, pc, op, workflow_name, task, stream, steps_arg,
          initial_context_copy, workflow_steps, idx, results, invocations,
          ret, exc, passed_context, kept, hardware_vars, cache_vars>>

(***************************************************************************)
(* Bounds of the model                                                     *)
(***************************************************************************)
MaxCustomSteps == 3    \* longest steps list handed to create_custom_workflow

(***************************************************************************)
(* Dictionaries: functions from keys (strings) to values                   *)
(***************************************************************************)
EmptyDict == [k \in {} |-> "none"]

Put(d, k, v) == [x \in (DOMAIN d) \cup {k} |-> IF x = k THEN v ELSE d[x]]

\* dict.update / key-by-key assignment of every entry of e into d
Update(d, e) == [x \in (DOMAIN d) \cup (DOMAIN e) |-> IF x \in DOMAIN e THEN e[x] ELSE d[x]]

\* An optional dict argument: None, or a dict object
NoneArg == [none |-> TRUE, d |-> EmptyDict]
DictArg(d) == [none |-> FALSE, d |-> d]

\* Python truthiness of an Optional[Dict]: None and {} are falsy
Truthy(arg) == ~arg.none /\ DOMAIN arg.d # {}

\* "arg or {}" as a value
OrEmpty(arg) == IF Truthy(arg) THEN arg.d ELSE EmptyDict

SeqToSet(s) == {s[i] : i \in 1..Len(s)}

(***************************************************************************)
(* base.py: TaskResult                                                     *)
(***************************************************************************)
\* keyword parameters TaskResult.__init__ declares
TaskResultParams == {"success", "output", "agent_type", "task", "context", "error"}

\* A constructor call with keyword arguments kw raises TypeError exactly when
\* one of them is not a declared parameter.
TaskResultAccepts(kw) == kw \subseteq TaskResultParams

TaskResult(success, output, agent_type, t, context, error) ==
    [success |-> success, output |-> output, agent_type |-> agent_type,
     task |-> t, context |-> context, error |-> error]

\* keyword arguments of the three TaskResult(...) calls in Workflow._execute_step
StepFailureKwargs == {"success", "output", "agent_type", "task", "error", "execution_time"}

(***************************************************************************)
(* config.py: WorkflowConfig and ConfigManager                             *)
(***************************************************************************)
AgentTypes == {"plan", "code", "test", "review"}

DefaultWorkflowConfig ==
    [feature_development |-> <<"plan", "code", "test", "review">>,
     bug_fix             |-> <<"plan", "code", "test">>,
     code_review         |-> <<"review">>,
     refactoring         |-> <<"plan", "code", "test", "review">>]

\* WorkflowConfig.validate_workflow_steps: non-empty, known agents, no duplicates
validate_workflow_steps(v) ==
    /\ Len(v) > 0
    /\ \A i \in 1..Len(v) : v[i] \in AgentTypes
    /\ Cardinality(SeqToSet(v)) = Len(v)

\* ConfigManager.load_config: a file that fails validation yields the defaults
load_config(file) ==
    IF \A f \in DOMAIN file : validate_workflow_steps(file[f])
    THEN file
    ELSE DefaultWorkflowConfig

\* ConfigManager.get_workflow_steps
get_workflow_steps(cfg, name) ==
    CASE name = "feature-dev" -> cfg.feature_development
      [] name = "bug-fix"     -> cfg.bug_fix
      [] name = "code-review" -> cfg.code_review
      [] name = "refactor"    -> cfg.refactoring
      [] OTHER                -> <<>>

(***************************************************************************)
(* orchestrator.py: WorkflowStep and the definition resolver               *)
(***************************************************************************)
WorkflowStep(agent_type, description, depends_on, context_mapping) ==
    [agent_type |-> agent_type, description |-> description,
     depends_on |-> depends_on, context_mapping |-> context_mapping,
     has_result |-> FALSE, completed |-> FALSE]

\* the dict "workflows" built in Workflow._get_workflow_definition
BuiltinWorkflows(name) ==
    CASE name = "feature-dev" ->
           << WorkflowStep("plan", "Create implementation plan", <<>>, EmptyDict),
              WorkflowStep("code", "Generate code implementation", <<"plan">>,
                           "plan_output" :> "implementation_plan"),
              WorkflowStep("test", "Create and run tests", <<"code">>,
                           "code_output" :> "code_to_test"),
              WorkflowStep("review", "Review implementation", <<"code">>,
                           "code_output" :> "code_to_review") >>
      [] name = "bug-fix" ->
           << WorkflowStep("plan", "Analyze bug and create fix plan", <<>>, EmptyDict),
              WorkflowStep("code", "Implement bug fix", <<"plan">>,
                           "plan_output" :> "fix_plan"),
              WorkflowStep("test", "Test bug fix", <<"code">>,
                           "code_output" :> "fixed_code") >>
      [] name = "code-review" ->
           << WorkflowStep("review", "Comprehensive code review", <<>>, EmptyDict) >>
      [] name = "refactor" ->
           << WorkflowStep("plan", "Create refactoring plan", <<>>, EmptyDict),
              WorkflowStep("code", "Implement refactoring", <<"plan">>,
                           "plan_output" :> "refactor_plan"),
              WorkflowStep("test", "Test refactored code", <<"code">>,
                           "code_output" :> "refactored_code"),
              WorkflowStep("review", "Review refactored implementation", <<"code">>,
                           "code_output" :> "code_to_review") >>
      [] OTHER -> <<>>

\* mutant: a built-in template wins over the configured steps
get_workflow_definition_builtin_first(cfg, name) ==
    LET config_workflows == get_workflow_steps(cfg, name) IN
    IF Len(BuiltinWorkflows(name)) > 0
    THEN BuiltinWorkflows(name)
    ELSE [i \in 1..Len(config_workflows) |->
            WorkflowStep(config_workflows[i],
                         "Execute " \o config_workflows[i] \o " agent",
                         <<>>, EmptyDict)]

\* Workflow._get_workflow_definition: configured steps win over the built-ins
get_workflow_definition(cfg, name) ==
    LET config_workflows == get_workflow_steps(cfg, name) IN
    IF Len(config_workflows) > 0
    THEN [i \in 1..Len(config_workflows) |->
            WorkflowStep(config_workflows[i],
                         "Execute " \o config_workflows[i] \o " agent",
                         <<>>, EmptyDict)]
    ELSE BuiltinWorkflows(name)

(***************************************************************************)
(* orchestrator.py: helpers of the step loop                               *)
(***************************************************************************)
\* mutant: a failed result satisfies a dependency as well
check_dependencies_any_result(step, completed_results) ==
    \A dep \in SeqToSet(step.depends_on) :
        \E i \in 1..Len(completed_results) : completed_results[i].agent_type = dep

\* Workflow._check_dependencies, WorkflowStep form
check_dependencies(step, completed_results) ==
    IF Len(step.depends_on) = 0
    THEN TRUE
    ELSE LET completed_types ==
                 {completed_results[i].agent_type :
                     i \in {j \in 1..Len(completed_results) : completed_results[j].success}}
         IN  \A dep \in SeqToSet(step.depends_on) : dep \in completed_types

\* mutant: the main task is handed on as it is
customize_task_unchanged(step, main_task) == main_task

\* Workflow._customize_task_for_step
customize_task_for_step(step, main_task) ==
    CASE step.agent_type = "plan"   -> "Create a detailed plan for: " \o main_task
      [] step.agent_type = "code"   -> "Implement the following: " \o main_task
      [] step.agent_type = "test"   -> "Create comprehensive tests for: " \o main_task
      [] step.agent_type = "review" -> "Review the implementation of: " \o main_task
      [] OTHER                      -> step.description \o ": " \o main_task

\* mutant: the critical agent type is taken to be code
should_continue_unless_code(step, result) == step.agent_type # "code"

\* Workflow._should_continue_after_failure
should_continue_after_failure(step, result) == step.agent_type # "plan"

\* key.startswith("_") over the keys the model uses
PrivateKeys == {"_private"}
StartsWithUnderscore(key) == key \in PrivateKeys

\* mutant: every key of the result's context is merged, private or not
update_context_with_private_keys(ctx, step, result) ==
    IF result.success
    THEN LET c1 == Put(ctx, step.agent_type \o "_output", result.output)
             c2 == Put(c1, step.agent_type \o "_result", result)
         IN  Update(c2, result.context)
    ELSE ctx

\* mutant: the result is stored whether or not it succeeded
update_context_on_any_result(ctx, step, result) ==
    LET c1 == Put(ctx, step.agent_type \o "_output", result.output)
        c2 == Put(c1, step.agent_type \o "_result", result)
        pub == {k \in DOMAIN result.context : ~StartsWithUnderscore(k)}
    IN  Update(c2, [k \in pub |-> result.context[k]])

\* Workflow._update_context_from_result: the new value of current_context
update_context_from_result(ctx, step, result) ==
    IF result.success
    THEN LET c1 == Put(ctx, step.agent_type \o "_output", result.output)
             c2 == Put(c1, step.agent_type \o "_result", result)
             pub == {k \in DOMAIN result.context : ~StartsWithUnderscore(k)}
         IN  Update(c2, [k \in pub |-> result.context[k]])
    ELSE ctx

\* mutant: the context_mapping is not applied
step_context_unmapped(ctx, step) == ctx

\* The context handed to the agent: a copy of current_context with the
\* step's context_mapping applied (Workflow._execute_step)
step_context_for(ctx, step) ==
    LET present == {src \in DOMAIN step.context_mapping : src \in DOMAIN ctx}
        dsts == {step.context_mapping[src] : src \in present}
    IN  [k \in (DOMAIN ctx) \cup dsts |->
            IF k \in dsts
            THEN ctx[CHOOSE src \in present : step.context_mapping[src] = k]
            ELSE ctx[k]]

(***************************************************************************)
(* The environment: what one agent.execute call does                       *)
(***************************************************************************)
\* Keys an agent adds to the context of its result.  The agents of this
\* repository return the context they were given (coder.py 62, reviewer.py
\* 100, tester.py 65), the planner a copy of it with keys added (planner.py
\* 45-50); a stub agent returns a result with no context.
ResultContexts == {EmptyDict, ("extra_info" :> "v") @@ ("_private" :> "p")}
AgentBehaviours ==
    {[outcome |-> "success", context |-> c, echo |-> (c # EmptyDict)] : c \in ResultContexts}
    \cup {[outcome |-> o, context |-> EmptyDict, echo |-> FALSE] : o \in {"failure", "raise"}}

\* The output of an agent: an agent that finds an earlier output of its own
\* type in the context it is given produces a different text
AgentOutput(agent_type, step_context) ==
    IF (agent_type \o "_output") \in DOMAIN step_context
    THEN agent_type \o " output (revised)"
    ELSE agent_type \o " output"

\* The TaskResult an agent of the given type returns
AgentResult(agent_type, task_description, step_context, b) ==
    IF b.outcome = "success"
    THEN TaskResult(TRUE, AgentOutput(agent_type, step_context), agent_type,
                    task_description,
                    IF b.echo THEN Update(step_context, b.context) ELSE b.context,
                    "None")
    ELSE TaskResult(FALSE, "", agent_type, task_description, b.context,
                    agent_type \o " failed")

\* str(e) of the exception an agent raises
AgentException(agent_type) == agent_type \o " agent crashed"

TypeErrorMessage == "TypeError: unexpected keyword argument 'execution_time'"

(***************************************************************************)
(* Workflow._execute_step, WorkflowStep form.  The value describes how the *)
(* call ends: kind "return" with the TaskResult, or kind "raise" with the  *)
(* exception that leaves it; invoked tells whether agent.execute was       *)
(* called, call is the log entry of that call (its arguments and whether   *)
(* it raised), step is the step afterwards.                                *)
(***************************************************************************)
\* TaskResult(success=False, ..., error=msg, execution_time=...) as written
\* at the three failure sites: the record, or the TypeError of the constructor
FailureResult(step, msg) ==
    IF TaskResultAccepts(StepFailureKwargs)
    THEN [kind |-> "return",
          result |-> TaskResult(FALSE, "", step.agent_type, step.description,
                                EmptyDict, msg),
          exc |-> "None"]
    ELSE [kind |-> "raise",
          result |-> TaskResult(FALSE, "", step.agent_type, step.description,
                                EmptyDict, msg),
          exc |-> TypeErrorMessage]

\* mutant: a step counts as completed only when its result succeeded
complete_step_on_success(step, result) ==
    [step EXCEPT !.has_result = TRUE, !.completed = result.success]

\* step.result = result; step.completed = True
complete_step(step, result) ==
    [step EXCEPT !.has_result = TRUE, !.completed = TRUE]

execute_step(registry, ctx, step, main_task, stream_arg, b) ==
    LET task_description == customize_task_for_step(step, main_task)
        step_context == step_context_for(ctx, step)
        known == step.agent_type \in registry
        call == [agent_type |-> step.agent_type, task |-> task_description,
                 context |-> step_context, stream |-> stream_arg,
                 raised |-> b.outcome = "raise"]
        \* body of the try block
        tried ==
            IF ~known
            THEN FailureResult(step, "Unknown agent type: " \o step.agent_type)
            ELSE IF b.outcome = "raise"
                 THEN [kind |-> "raise",
                       result |-> TaskResult(FALSE, "", step.agent_type,
                                             step.description, EmptyDict, "None"),
                       exc |-> AgentException(step.agent_type)]
                 ELSE [kind |-> "return",
                       result |-> AgentResult(step.agent_type, task_description,
                                             step_context, b),
                       exc |-> "None"]
        \* "except Exception as e": build the failed TaskResult from str(e)
        ended == IF tried.kind = "raise" THEN FailureResult(step, tried.exc) ELSE tried
        returned_by_agent == known /\ b.outcome # "raise"
    IN  [kind |-> ended.kind, result |-> ended.result, exc |-> ended.exc,
         invoked |-> known, call |-> call,
         step |-> IF returned_by_agent
                  THEN complete_step(step, ended.result)
                  ELSE step]

(***************************************************************************)
(* orchestrator.py: WorkflowResult                                         *)
(***************************************************************************)
AllSucceeded(rs) == \A i \in 1..Len(rs) : rs[i].success
SuccessfulResults(rs) == SelectSeq(rs, LAMBDA r : r.success)

\* mutant: success is all(...) without the guard for an empty list
WorkflowResultVacuousSuccess(rs, name, t, steps, initial_copy, ctx) ==
    [success         |-> AllSucceeded(rs),
     results         |-> rs,
     workflow_name   |-> name,
     task            |-> t,
     total_steps     |-> Len(steps),
     completed_steps |-> Len(SuccessfulResults(rs)),
     error           |-> "None",
     initial_context |-> initial_copy,
     final_context   |-> ctx]

\* mutant: completed_steps counts every attempted step
WorkflowResultCountsAttempts(rs, name, t, steps, initial_copy, ctx) ==
    [success         |-> IF Len(rs) > 0 THEN AllSucceeded(rs) ELSE FALSE,
     results         |-> rs,
     workflow_name   |-> name,
     task            |-> t,
     total_steps     |-> Len(steps),
     completed_steps |-> Len(rs),
     error           |-> "None",
     initial_context |-> initial_copy,
     final_context   |-> ctx]

\* mutant: total_steps counts the attempted steps only
WorkflowResultTotalIsAttempts(rs, name, t, steps, initial_copy, ctx) ==
    [success         |-> IF Len(rs) > 0 THEN AllSucceeded(rs) ELSE FALSE,
     results         |-> rs,
     workflow_name   |-> name,
     task            |-> t,
     total_steps     |-> Len(rs),
     completed_steps |-> Len(SuccessfulResults(rs)),
     error           |-> "None",
     initial_context |-> initial_copy,
     final_context   |-> ctx]

\* mutant: the error text counts every attempted step
WorkflowResultErrorCountsAttempts(rs, name, t, steps, initial_copy, ctx) ==
    [success         |-> IF Len(rs) > 0 THEN AllSucceeded(rs) ELSE FALSE,
     results         |-> rs,
     workflow_name   |-> name,
     task            |-> t,
     total_steps     |-> Len(steps),
     completed_steps |-> Len(SuccessfulResults(rs)),
     error           |-> IF AllSucceeded(rs) \/ Len(rs) = 0
                         THEN "None"
                         ELSE "Failed steps: " \o ToString(Len(rs)),
     initial_context |-> initial_copy,
     final_context   |-> ctx]

\* The WorkflowResult(...) expression that ends both public methods
WorkflowResult(rs, name, t, steps, initial_copy, ctx) ==
    [success         |-> IF Len(rs) > 0 THEN AllSucceeded(rs) ELSE FALSE,
     results         |-> rs,
     workflow_name   |-> name,
     task            |-> t,
     total_steps     |-> Len(steps),
     completed_steps |-> Len(SuccessfulResults(rs)),
     error           |-> IF AllSucceeded(rs) \/ Len(rs) = 0
                         THEN "None"
                         ELSE "Failed steps: "
                              \o ToString(Len(rs) - Len(SuccessfulResults(rs))),
     initial_context |-> initial_copy,
     final_context   |-> ctx]

\* WorkflowResult.failed_steps
failed_steps(r) == Len(r.results) - r.completed_steps

\* WorkflowResult.successful_steps
successful_steps(r) == r.completed_steps

\* WorkflowResult.summary: the status line
summary_status(r) ==
    LET successful_steps_ == Cardinality({i \in 1..Len(r.results) : r.results[i].success})
        total_steps_ == Len(r.results)
    IN  IF successful_steps_ = total_steps_
        THEN "Status: Workflow completed successfully"
        ELSE "Status: Workflow completed with "
             \o ToString(total_steps_ - successful_steps_) \o " failures"

NoResult == WorkflowResult(<<>>, "", "", <<>>, EmptyDict, EmptyDict)

(***************************************************************************)
(* Inputs of the public methods                                            *)
(***************************************************************************)
WorkflowNames == {"feature-dev", "bug-fix", "code-review", "refactor", "nonexistent"}
Tasks == {"Create a function"}
InitialContexts ==
    {NoneArg, DictArg(EmptyDict), DictArg("file" :> "test1.py"),
     DictArg("directory" :> "/project")}
CustomTypes == {"plan", "code", "bogus"}
\* Lists of registered types of every length up to the bound, and lists with
\* one unknown element at any position among plan steps
CustomStepLists ==
    {l \in UNION {[1..n -> CustomTypes] : n \in 0..MaxCustomSteps} :
        \/ \A i \in 1..Len(l) : l[i] # "bogus"
        \/ /\ Cardinality({i \in 1..Len(l) : l[i] = "bogus"}) = 1
           /\ \A i \in 1..Len(l) : l[i] \in {"plan", "bogus"}}

\* Configuration files the model loads: the defaults, a reordered valid
\* configuration, and a file the validator rejects
ReorderedWorkflowConfig ==
    [feature_development |-> <<"code", "plan", "review">>,
     bug_fix             |-> <<"plan", "code">>,
     code_review         |-> <<"review">>,
     refactoring         |-> <<"test", "plan", "code">>]
RejectedWorkflowConfig ==
    [DefaultWorkflowConfig EXCEPT !.bug_fix = <<>>, !.code_review = <<"review", "review">>]
ConfigFiles == {DefaultWorkflowConfig, ReorderedWorkflowConfig, RejectedWorkflowConfig}

\* A configuration collaborator with no workflow configured: every lookup
\* yields the empty list
UnconfiguredWorkflows ==
    [feature_development |-> <<>>, bug_fix |-> <<>>, code_review |-> <<>>,
     refactoring |-> <<>>]

\* Registries a host application can leave in Workflow.agents
Registries == {AgentTypes, AgentTypes \ {"review"}, AgentTypes \ {"plan"}}

(***************************************************************************)
(* State after construction (Workflow.__init__)                            *)
(***************************************************************************)
\* the caller holds no earlier result
NotKept == [set |-> FALSE, initial_context |-> EmptyDict,
            final_context |-> EmptyDict, dict |-> NoneArg]

\* threads that use OllamaClient instances sharing the class-level cache
Threads == {"t1", "t2"}
NoThread == "none"

\* Workflow(max_concurrent_agents=2); no optimize_for_hardware call yet
\* (cpu_cores = 0 marks that); the class attributes of OllamaClient
InitRest ==
    /\ kept = NotKept
    /\ max_concurrent_agents = 2
    /\ ram_gb = 0
    /\ cpu_cores = 0
    /\ response_cache = EmptyDict
    /\ cache_lock = NoThread
    /\ thread_pc = [t \in Threads |-> "idle"]
    /\ thread_key = [t \in Threads |-> ""]
    /\ oldest_key = [t \in Threads |-> ""]
    /\ now = 0

InitCall ==
    /\ current_context = EmptyDict
    /\ caller_context = NoneArg
    /\ passed_context = NoneArg
    /\ aliased = FALSE
    /\ pc = "idle"
    /\ op = "none"
    /\ workflow_name = ""
    /\ task = ""
    /\ stream = FALSE
    /\ steps_arg = <<>>
    /\ initial_context_copy = EmptyDict
    /\ workflow_steps = <<>>
    /\ idx = 1
    /\ results = <<>>
    /\ invocations = <<>>
    /\ ret = NoResult
    /\ exc = "None"

\* Workflow() with the ConfigManager of config.py
Init ==
    /\ config \in {load_config(f) : f \in ConfigFiles}
    /\ agents = AgentTypes
    /\ InitCall
    /\ InitRest

\* The orchestrator with collaborators supplied by the host: any registry of
\* Registries, and a configuration that may have no workflow configured
InitHost ==
    /\ config \in {load_config(f) : f \in ConfigFiles} \cup {UnconfiguredWorkflows}
    /\ agents \in Registries
    /\ InitCall
    /\ InitRest

(***************************************************************************)
(* Workflow.execute_workflow                                               *)
(***************************************************************************)
CanCall == pc = "idle"

\* lines 238-263: from entry to the start of the loop, or the raise
ExecuteWorkflowCall(name, t, initial_context, s) ==
    /\ CanCall
    /\ LET ctx0 == OrEmpty(initial_context)
           ctx1 == Put(ctx0, "main_task", t)
           ctx2 == IF "directory" \in DOMAIN ctx1 THEN ctx1
                   ELSE Put(ctx1, "directory", "cwd")
           steps == get_workflow_definition(config, name)
       IN  /\ initial_context_copy' = ctx0
           /\ aliased' = Truthy(initial_context)
           /\ current_context' = ctx2
           /\ caller_context' = IF Truthy(initial_context) THEN DictArg(ctx2)
                                ELSE initial_context
           /\ passed_context' = initial_context
           /\ workflow_steps' = steps
           /\ IF Len(steps) = 0
              THEN pc' = "raised" /\ exc' = "Unknown workflow: " \o name
              ELSE pc' = "loop" /\ exc' = "None"
    /\ op' = "execute_workflow"
    /\ workflow_name' = name
    /\ task' = t
    /\ stream' = s
    /\ steps_arg' = <<>>
    /\ idx' = 1
    /\ results' = <<>>
    /\ invocations' = <<>>
    /\ ret' = NoResult
    /\ UNCHANGED <<config, agents>>
    /\ UNCHANGED <<kept, hardware_vars, cache_vars>>

\* A write to self.current_context also lands in the caller's object when
\* the two are the same object
WriteContext(ctx) ==
    /\ current_context' = ctx
    /\ caller_context' = IF aliased THEN DictArg(ctx) ELSE caller_context

\* lines 275-304: one iteration of the loop
ExecuteWorkflowStep(b) ==
    /\ pc = "loop"
    /\ op = "execute_workflow"
    /\ idx <= Len(workflow_steps)
    /\ LET step == workflow_steps[idx]
           last == idx = Len(workflow_steps)
       IN  IF ~check_dependencies(step, results)
           THEN \* skipped: continue
                /\ idx' = idx + 1
                /\ pc' = IF last THEN "after_loop" ELSE "loop"
                /\ UNCHANGED <<current_context, caller_context,
                               workflow_steps, results, invocations, exc>>
           ELSE LET r == execute_step(agents, current_context, step, task, stream, b)
                IN  /\ invocations' = IF r.invoked THEN Append(invocations, r.call)
                                      ELSE invocations
                    /\ workflow_steps' = [workflow_steps EXCEPT ![idx] = r.step]
                    /\ IF r.kind = "raise"
                       THEN /\ pc' = "raised"
                            /\ exc' = r.exc
                            /\ UNCHANGED <<current_context, caller_context,
                                           results, idx>>
                       ELSE /\ results' = Append(results, r.result)
                            /\ WriteContext(update_context_from_result(
                                                current_context, step, r.result))
                            /\ idx' = idx + 1
                            /\ pc' = IF \/ last
                                        \/ /\ ~r.result.success
                                           /\ ~should_continue_after_failure(step, r.result)
                                     THEN "after_loop" ELSE "loop"
                            /\ exc' = "None"
    /\ UNCHANGED <<config, agents, aliased, op, workflow_name, task, stream,
                   steps_arg, initial_context_copy, ret, passed_context>>
    /\ UNCHANGED <<kept, hardware_vars, cache_vars>>

\* lines 306-325: build and return the WorkflowResult
ExecuteWorkflowReturn ==
    /\ pc = "after_loop"
    /\ op = "execute_workflow"
    /\ ret' = WorkflowResult(results, workflow_name, task, workflow_steps,
                             initial_context_copy, current_context)
    /\ pc' = "returned"
    /\ UNCHANGED <<config, agents, current_context, caller_context,
                   aliased, op, workflow_name, task, stream, steps_arg,
                   initial_context_copy, workflow_steps, idx, results, invocations,
                   exc, passed_context>>
    /\ UNCHANGED <<kept, hardware_vars, cache_vars>>

(***************************************************************************)
(* Workflow.create_custom_workflow                                         *)
(***************************************************************************)
\* lines 705-718: the steps built from the caller's list
CustomWorkflowSteps(steps) ==
    [i \in 1..Len(steps) |->
        WorkflowStep(steps[i], "Execute " \o steps[i] \o " agent",
                     IF i > 1 THEN <<steps[i - 1]>> ELSE <<>>, EmptyDict)]

\* mutant: only the first element of the list is validated
UnknownPositionsOfHead(registry, steps) ==
    {i \in 1..Len(steps) : i = 1 /\ steps[i] \notin registry}

\* positions of the list whose agent type is not registered
UnknownPositions(registry, steps) == {i \in 1..Len(steps) : steps[i] \notin registry}

Min(S) == CHOOSE x \in S : \A y \in S : x <= y

\* lines 702-735: validation, then the context set-up
CreateCustomWorkflowCall(steps, t, context, s) ==
    /\ CanCall
    /\ IF UnknownPositions(agents, steps) # {}
       THEN /\ pc' = "raised"
            /\ exc' = "Unknown agent type: " \o steps[Min(UnknownPositions(agents, steps))]
            /\ workflow_steps' = CustomWorkflowSteps(
                                     SubSeq(steps, 1, Min(UnknownPositions(agents, steps)) - 1))
            /\ initial_context_copy' = EmptyDict
            \* nothing was written: the caller's object is as it was passed,
            \* and current_context is still the object of the call before
            /\ caller_context' = context
            /\ aliased' = FALSE
            /\ UNCHANGED current_context
       ELSE /\ pc' = IF Len(steps) = 0 THEN "after_loop" ELSE "loop"
            /\ exc' = "None"
            /\ workflow_steps' = CustomWorkflowSteps(steps)
            /\ initial_context_copy' = OrEmpty(context)
            /\ aliased' = Truthy(context)
            /\ current_context' = Put(OrEmpty(context), "main_task", t)
            /\ caller_context' = IF Truthy(context)
                                 THEN DictArg(Put(OrEmpty(context), "main_task", t))
                                 ELSE context
    /\ passed_context' = context
    /\ op' = "create_custom_workflow"
    /\ workflow_name' = "custom"
    /\ task' = t
    /\ stream' = s
    /\ steps_arg' = steps
    /\ idx' = 1
    /\ results' = <<>>
    /\ invocations' = <<>>
    /\ ret' = NoResult
    /\ UNCHANGED <<config, agents>>
    /\ UNCHANGED <<kept, hardware_vars, cache_vars>>

\* the stream argument agent.execute receives from the call
\* self._execute_step(step, task, stream): the third positional parameter of
\* _execute_step is context, so its stream parameter keeps its default
CustomStreamArg(s) == FALSE

\* lines 737-748: one iteration of the loop
CreateCustomWorkflowStep(b) ==
    /\ pc = "loop"
    /\ op = "create_custom_workflow"
    /\ idx <= Len(workflow_steps)
    /\ LET step == workflow_steps[idx]
           last == idx = Len(workflow_steps)
           r == execute_step(agents, current_context, step, task,
                             CustomStreamArg(stream), b)
       IN  /\ invocations' = IF r.invoked THEN Append(invocations, r.call)
                             ELSE invocations
           /\ workflow_steps' = [workflow_steps EXCEPT ![idx] = r.step]
           /\ IF r.kind = "raise"
              THEN /\ pc' = "raised"
                   /\ exc' = r.exc
                   /\ UNCHANGED <<current_context, caller_context, results, idx>>
              ELSE /\ results' = Append(results, r.result)
                   /\ WriteContext(update_context_from_result(
                                       current_context, step, r.result))
                   /\ idx' = idx + 1
                   /\ pc' = IF last THEN "after_loop" ELSE "loop"
                   /\ exc' = "None"
    /\ UNCHANGED <<config, agents, aliased, op, workflow_name,
                   task, stream, steps_arg, initial_context_copy, ret,
                   passed_context>>
    /\ UNCHANGED <<kept, hardware_vars, cache_vars>>

\* lines 750-769: build and return the WorkflowResult
CreateCustomWorkflowReturn ==
    /\ pc = "after_loop"
    /\ op = "create_custom_workflow"
    /\ ret' = WorkflowResult(results, "custom", task, workflow_steps,
                             initial_context_copy, current_context)
    /\ pc' = "returned"
    /\ UNCHANGED <<config, agents, current_context, caller_context,
                   aliased, op, workflow_name, task, stream, steps_arg,
                   initial_context_copy, workflow_steps, idx, results, invocations,
                   exc, passed_context>>
    /\ UNCHANGED <<kept, hardware_vars, cache_vars>>

(***************************************************************************)
(* Between two calls: the caller is done with the outcome of the call.     *)
(* The locals of the call, the WorkflowResult or exception and the dict    *)
(* the caller passed are not referred to again; the Workflow instance      *)
(* keeps its current_context.                                              *)
(***************************************************************************)
CallEndsWith(k) ==
    /\ pc \in {"returned", "raised"}
    /\ kept' = k
    /\ pc' = "idle"
    /\ op' = "none"
    /\ workflow_name' = ""
    /\ task' = ""
    /\ stream' = FALSE
    /\ steps_arg' = <<>>
    /\ initial_context_copy' = EmptyDict
    /\ workflow_steps' = <<>>
    /\ idx' = 1
    /\ results' = <<>>
    /\ invocations' = <<>>
    /\ ret' = NoResult
    /\ exc' = "None"
    /\ caller_context' = NoneArg
    /\ passed_context' = NoneArg
    /\ aliased' = FALSE
    /\ UNCHANGED <<config, agents, current_context, hardware_vars, cache_vars>>

\* the caller keeps nothing
CallEnds == CallEndsWith(NotKept)

(***************************************************************************)
(* Specifications                                                          *)
(***************************************************************************)
Next ==
    \/ \E name \in WorkflowNames, t \in Tasks, c \in InitialContexts, s \in BOOLEAN :
          ExecuteWorkflowCall(name, t, c, s)
    \/ \E b \in AgentBehaviours : ExecuteWorkflowStep(b)
    \/ ExecuteWorkflowReturn
    \/ \E steps \in CustomStepLists, t \in Tasks, c \in InitialContexts, s \in BOOLEAN :
          CreateCustomWorkflowCall(steps, t, c, s)
    \/ \E b \in AgentBehaviours : CreateCustomWorkflowStep(b)
    \/ CreateCustomWorkflowReturn
    \/ CallEnds

Spec == Init /\ [][Next]_vars

SpecHost == InitHost /\ [][Next]_vars

(***************************************************************************)
(* Workflow.optimize_for_hardware                                          *)
(***************************************************************************)
MaxRamGb == 17       \* largest ram_gb passed
MaxCpuCores == 9     \* largest cpu_cores passed

\* the value assigned to self.max_concurrent_agents
optimize_for_hardware(ram, cores) ==
    IF ram >= 16
    THEN IF cores \div 2 < 4 THEN cores \div 2 ELSE 4
    ELSE IF ram >= 8 THEN 2 ELSE 1

OptimizeForHardware(ram, cores) ==
    /\ max_concurrent_agents' = optimize_for_hardware(ram, cores)
    /\ ram_gb' = ram
    /\ cpu_cores' = cores
    /\ UNCHANGED <<config, agents, current_context, caller_context,
                   aliased, pc, op, workflow_name, task, stream, steps_arg,
                   initial_context_copy, workflow_steps, idx, results, invocations,
                   ret, exc, passed_context, kept, cache_vars>>

NextHardware ==
    \E ram \in 0..MaxRamGb, cores \in 1..MaxCpuCores : OptimizeForHardware(ram, cores)

SpecHardware == Init /\ [][NextHardware]_vars

(***************************************************************************)
(* OllamaClient: the class-level response cache and its lock               *)
(* (ollama_client.py 22-26, 52-86).  A thread is an agent's client running *)
(* one cache method; every body runs inside "with _cache_lock".  A client  *)
(* with enable_cache = False returns before the lock and changes nothing.  *)
(* The sizes are scaled down: the code has _cache_size = 100 and           *)
(* _cache_ttl = 300 seconds.                                               *)
(***************************************************************************)
cache_size == 2      \* OllamaClient._cache_size
cache_ttl == 2       \* OllamaClient._cache_ttl
MaxTime == 3         \* latest value of time.time()

CacheKeys == {"k1", "k2", "k3"}

\* del d[k]
Delete(d, k) == [x \in (DOMAIN d) \ {k} |-> d[x]]

\* the keys min(cache.keys(), key=timestamp) can return
OldestKeys(cache) ==
    {k \in DOMAIN cache :
        \A j \in DOMAIN cache : cache[k].timestamp <= cache[j].timestamp}

\* threading.Lock: acquire succeeds only when no thread holds the lock
lock_always_available(lock) == TRUE

lock_available(lock) == lock = NoThread

CacheUnchanged ==
    UNCHANGED <<config, agents, current_context, caller_context,
                aliased, pc, op, workflow_name, task, stream, steps_arg,
                initial_context_copy, workflow_steps, idx, results, invocations,
                ret, exc, passed_context, kept, hardware_vars>>

\* "with OllamaClient._cache_lock:" entered by thread t in method position p
EnterCacheLock(t, p, key) ==
    /\ thread_pc[t] = "idle"
    /\ lock_available(cache_lock)
    /\ cache_lock' = t
    /\ thread_pc' = [thread_pc EXCEPT ![t] = p]
    /\ thread_key' = [thread_key EXCEPT ![t] = key]
    /\ UNCHANGED <<response_cache, oldest_key, now>>
    /\ CacheUnchanged

\* the end of the with block: the lock is released and the method returns
LeaveCacheLock(t) ==
    /\ cache_lock' = NoThread
    /\ thread_pc' = [thread_pc EXCEPT ![t] = "idle"]
    /\ thread_key' = [thread_key EXCEPT ![t] = ""]
    /\ oldest_key' = [oldest_key EXCEPT ![t] = ""]
    /\ UNCHANGED now
    /\ CacheUnchanged

\* _cache_response(cache_key, response), up to the lock
CacheResponseCall(t, key) == EnterCacheLock(t, "cache_response_check", key)

\* if len(cache) >= _cache_size: oldest_key = min(...); del cache[oldest_key]
CacheResponseEvict(t) ==
    /\ thread_pc[t] = "cache_response_check"
    /\ IF Cardinality(DOMAIN response_cache) >= cache_size
       THEN \E k \in OldestKeys(response_cache) :
               /\ response_cache' = Delete(response_cache, k)
               /\ oldest_key' = [oldest_key EXCEPT ![t] = k]
       ELSE UNCHANGED <<response_cache, oldest_key>>
    /\ thread_pc' = [thread_pc EXCEPT ![t] = "cache_response_store"]
    /\ UNCHANGED <<cache_lock, thread_key, now>>
    /\ CacheUnchanged

\* cache[cache_key] = (response, time.time())
CacheResponseStore(t) ==
    /\ thread_pc[t] = "cache_response_store"
    /\ response_cache' = Put(response_cache, thread_key[t],
                             [response |-> "response", timestamp |-> now])
    /\ LeaveCacheLock(t)

\* _get_cached_response(cache_key), up to the lock
GetCachedResponseCall(t, key) == EnterCacheLock(t, "get_cached_response", key)

\* a fresh entry is returned and stays; an expired one is deleted
GetCachedResponse(t) ==
    /\ thread_pc[t] = "get_cached_response"
    /\ response_cache' =
          IF /\ thread_key[t] \in DOMAIN response_cache
             /\ ~(now - response_cache[thread_key[t]].timestamp < cache_ttl)
          THEN Delete(response_cache, thread_key[t])
          ELSE response_cache
    /\ LeaveCacheLock(t)

\* clear_cache(), up to the lock
ClearCacheCall(t) == EnterCacheLock(t, "clear_cache", "")

\* cls._response_cache.clear()
ClearCache(t) ==
    /\ thread_pc[t] = "clear_cache"
    /\ response_cache' = EmptyDict
    /\ LeaveCacheLock(t)

\* time passes
Tick ==
    /\ now < MaxTime
    /\ now' = now + 1
    /\ UNCHANGED <<response_cache, cache_lock, thread_pc, thread_key, oldest_key>>
    /\ CacheUnchanged

NextCache ==
    \/ \E t \in Threads, key \in CacheKeys : CacheResponseCall(t, key)
    \/ \E t \in Threads : CacheResponseEvict(t)
    \/ \E t \in Threads : CacheResponseStore(t)
    \/ \E t \in Threads, key \in CacheKeys : GetCachedResponseCall(t, key)
    \/ \E t \in Threads : GetCachedResponse(t)
    \/ \E t \in Threads : ClearCacheCall(t)
    \/ \E t \in Threads : ClearCache(t)
    \/ Tick

SpecCache == Init /\ [][NextCache]_vars

(***************************************************************************)
(* A caller that runs a code review with its own dict {"file": "test1.py"} *)
(* (as test_workflow_context_isolation does), keeps the WorkflowResult and *)
(* the dict, and runs a second workflow on the same instance, either with  *)
(* a new dict or with the dict it already has.                             *)
(***************************************************************************)
CallEndsKeeping ==
    /\ pc = "returned"
    /\ op = "execute_workflow"
    /\ workflow_name = "code-review"
    /\ passed_context = DictArg("file" :> "test1.py")
    /\ CallEndsWith([set |-> TRUE, initial_context |-> ret.initial_context,
                     final_context |-> ret.final_context, dict |-> caller_context])

ExecuteWorkflowAgain(name, t, s) ==
    /\ kept.set
    /\ ExecuteWorkflowCall(name, t, kept.dict, s)

NextSession ==
    \/ Next
    \/ CallEndsKeeping
    \/ \E name \in WorkflowNames, t \in Tasks, s \in BOOLEAN :
          ExecuteWorkflowAgain(name, t, s)

SpecSession == Init /\ [][NextSession]_vars

(***************************************************************************)
(* Vocabulary of the properties                                            *)
(***************************************************************************)
StepTypes(steps) == [i \in 1..Len(steps) |-> steps[i].agent_type]
InvokedCount(t) == Cardinality({i \in 1..Len(invocations) : invocations[i].agent_type = t})
SucceededBefore(t, k) == \E j \in 1..(k - 1) : results[j].agent_type = t /\ results[j].success
InExecuteWorkflow == op = "execute_workflow"
InCustomWorkflow == op = "create_custom_workflow"
Ended == pc \in {"returned", "raised"}

\* steps of the resolved list that ask for a dependency
DependentSteps == {i \in 1..Len(workflow_steps) : Len(workflow_steps[i].depends_on) > 0}
HasEntry(i) == \E k \in 1..Len(results) : results[k].agent_type = workflow_steps[i].agent_type
WasInvoked(i) == InvokedCount(workflow_steps[i].agent_type) > 0

(***************************************************************************)
(* C1: in execute_workflow a step with a non-empty depends_on is invoked   *)
(* and has an entry in results only if every tag of depends_on is the      *)
(* agent type of a successful result strictly earlier in results; a step   *)
(* whose dependencies are unmet is skipped: no invocation, no entry.       *)
(* (Agent types are unique within a resolved list, so an entry or an       *)
(* invocation is identified with its step by the agent type.)              *)
(***************************************************************************)
C1_DependenciesGuardSteps ==
    InExecuteWorkflow =>
        \A i \in DependentSteps :
            /\ \A k \in 1..Len(results) :
                   results[k].agent_type = workflow_steps[i].agent_type =>
                       \A dep \in SeqToSet(workflow_steps[i].depends_on) :
                           SucceededBefore(dep, k)
            /\ \A k \in 1..Len(invocations) :
                   invocations[k].agent_type = workflow_steps[i].agent_type =>
                       /\ k <= Len(results) + 1
                       /\ \A dep \in SeqToSet(workflow_steps[i].depends_on) :
                              SucceededBefore(dep, k)

\* a returned run in which one dependent step ran and another was skipped
C1_Witness ==
    /\ InExecuteWorkflow
    /\ pc = "returned"
    /\ \E i \in DependentSteps : HasEntry(i) /\ WasInvoked(i)
    /\ \E i \in DependentSteps : ~HasEntry(i) /\ ~WasInvoked(i)

(***************************************************************************)
(* C2: in execute_workflow a failed result of a plan step ends the loop:   *)
(* it is the last entry of results and nothing is invoked after it; when   *)
(* the first step is plan and fails, the returned result has exactly one   *)
(* entry and success false.  A failed result of another agent type never   *)
(* ends the loop: the loop is left before the end of the list only after   *)
(* a failed plan result.                                                   *)
(***************************************************************************)
C2_PlanFailureAborts ==
    InExecuteWorkflow =>
        /\ \A k \in 1..Len(results) :
               (results[k].agent_type = "plan" /\ ~results[k].success) =>
                   /\ k = Len(results)
                   /\ Len(invocations) = k
                   /\ pc \in {"after_loop", "returned"}
        /\ (pc = "returned" /\ workflow_steps[1].agent_type = "plan"
               /\ ~ret.results[1].success) =>
               Len(ret.results) = 1 /\ ~ret.success
        /\ (pc \in {"after_loop", "returned"} /\ idx <= Len(workflow_steps)) =>
               /\ Len(results) > 0
               /\ results[Len(results)].agent_type = "plan"
               /\ ~results[Len(results)].success

\* a run of more than one step that ended at the failure of its first step, plan
C2_Witness ==
    /\ InExecuteWorkflow
    /\ pc = "returned"
    /\ Len(workflow_steps) > 1
    /\ workflow_steps[1].agent_type = "plan"
    /\ Len(ret.results) = 1
    /\ ~ret.results[1].success
    /\ Len(invocations) = 1

(***************************************************************************)
(* C3: a run of feature-dev (resolved to plan, code, test, review) in      *)
(* which plan succeeded and code failed attempts all four steps: test and  *)
(* review are each invoked once, the call returns four entries, and        *)
(* successful_steps is 3 and failed_steps 1 when test and review succeed.  *)
(***************************************************************************)
C3_FeatureDevContinuesAfterCodeFailure ==
    ( /\ InExecuteWorkflow
      /\ workflow_name = "feature-dev"
      /\ StepTypes(workflow_steps) = <<"plan", "code", "test", "review">>
      /\ Ended
      /\ Len(results) >= 2
      /\ results[1].agent_type = "plan" /\ results[1].success
      /\ results[2].agent_type = "code" /\ ~results[2].success )
    => /\ pc = "returned"
       /\ InvokedCount("test") = 1
       /\ InvokedCount("review") = 1
       /\ Len(ret.results) = 4
       /\ (ret.results[3].success /\ ret.results[4].success) =>
              successful_steps(ret) = 3 /\ failed_steps(ret) = 1

(***************************************************************************)
(* C4: a run of bug-fix in which plan succeeded and code failed skips the  *)
(* test step: the test agent is never invoked, the call returns exactly    *)
(* two entries (plan success, code failure) and success false.             *)
(***************************************************************************)
C4_BugFixSkipsTestAfterCodeFailure ==
    ( /\ InExecuteWorkflow
      /\ workflow_name = "bug-fix"
      /\ Len(results) >= 2
      /\ results[1].agent_type = "plan" /\ results[1].success
      /\ results[2].agent_type = "code" /\ ~results[2].success )
    => /\ InvokedCount("test") = 0
       /\ pc = "returned" =>
              /\ Len(ret.results) = 2
              /\ ~ret.success

(***************************************************************************)
(* C5: an agent whose execute call raises does not make execute_workflow   *)
(* raise: the step is recorded as a failed TaskResult with the exception's *)
(* text as error, and the call goes on to return a WorkflowResult.         *)
(***************************************************************************)
C5_AgentExceptionIsCaptured ==
    InExecuteWorkflow =>
        \A k \in 1..Len(invocations) :
            invocations[k].raised =>
                /\ pc # "raised"
                /\ k <= Len(results)
                /\ ~results[k].success
                /\ results[k].error = AgentException(invocations[k].agent_type)

(***************************************************************************)
(* C6: in execute_workflow a step whose agent type is not registered does  *)
(* not make the call raise: the call never ends with an exception at such  *)
(* a step.                                                                 *)
(***************************************************************************)
C6_UnknownAgentTypeIsCaptured ==
    (InExecuteWorkflow /\ pc = "raised" /\ Len(workflow_steps) > 0) =>
        workflow_steps[idx].agent_type \in agents

(***************************************************************************)
(* C7: execute_workflow with a name that resolves to no steps raises       *)
(* "Unknown workflow: <name>" before any agent is invoked and changes      *)
(* neither current_context nor the caller's initial_context object.        *)
(***************************************************************************)
C7_UnknownWorkflowHasNoSideEffects ==
    [][ ( /\ pc = "idle"
          /\ op' = "execute_workflow"
          /\ get_workflow_definition(config, workflow_name') = <<>> )
        => /\ pc' = "raised"
           /\ exc' = "Unknown workflow: " \o workflow_name'
           /\ invocations' = <<>>
           /\ current_context' = current_context
           /\ caller_context' = passed_context' ]_vars

(***************************************************************************)
(* C8: create_custom_workflow with an unregistered agent type at any       *)
(* position of steps raises "Unknown agent type: <type>" for an            *)
(* unregistered element of steps, with no agent invoked and with           *)
(* current_context and the caller's context object unchanged.              *)
(***************************************************************************)
C8_CustomWorkflowValidatesEagerly ==
    [][ ( /\ pc = "idle"
          /\ op' = "create_custom_workflow"
          /\ \E i \in 1..Len(steps_arg') : steps_arg'[i] \notin agents )
        => /\ pc' = "raised"
           /\ \E i \in 1..Len(steps_arg') :
                  /\ steps_arg'[i] \notin agents
                  /\ exc' = "Unknown agent type: " \o steps_arg'[i]
           /\ invocations' = <<>>
           /\ current_context' = current_context
           /\ caller_context' = passed_context' ]_vars

\* a list whose last element only is unknown was rejected, on an instance
\* where an earlier call had left a context behind
C8_Witness ==
    /\ InCustomWorkflow
    /\ pc = "raised"
    /\ Len(steps_arg) = 2
    /\ steps_arg[1] \in agents
    /\ steps_arg[2] \notin agents
    /\ exc = "Unknown agent type: " \o steps_arg[2]
    /\ "main_task" \in DOMAIN current_context
    /\ ~passed_context.none /\ DOMAIN passed_context.d # {}
    /\ invocations = <<>>

(***************************************************************************)
(* C9: a returned WorkflowResult has success true exactly when its results *)
(* are non-empty and completed_steps equals their number; a run with no    *)
(* attempted step has success false.                                       *)
(***************************************************************************)
C9_SuccessIffAllCompleted ==
    pc = "returned" =>
        /\ ret.success = (Len(ret.results) > 0 /\ ret.completed_steps = Len(ret.results))
        /\ Len(ret.results) = 0 => ~ret.success

\* create_custom_workflow with an empty list returned
C9_Witness ==
    /\ pc = "returned"
    /\ InCustomWorkflow
    /\ steps_arg = <<>>
    /\ ret.results = <<>>
    /\ ret.total_steps = 0
    /\ ~ret.success

(***************************************************************************)
(* C10: in a returned WorkflowResult completed_steps is the number of      *)
(* entries of results with success true and failed_steps the number with   *)
(* success false.                                                          *)
(***************************************************************************)
C10_CompletedStepsCountsSuccesses ==
    pc = "returned" =>
        /\ ret.completed_steps =
               Cardinality({i \in 1..Len(ret.results) : ret.results[i].success})
        /\ failed_steps(ret) =
               Cardinality({i \in 1..Len(ret.results) : ~ret.results[i].success})

\* a returned result that mixes successes and failures
C10_Witness ==
    /\ pc = "returned"
    /\ \E i, j \in 1..Len(ret.results) :
           ret.results[i].success /\ ~ret.results[j].success
    /\ ret.completed_steps > 0
    /\ failed_steps(ret) > 0

(***************************************************************************)
(* C11: in a returned WorkflowResult total_steps is the length of the      *)
(* resolved step list (for execute_workflow the list the resolver yields   *)
(* for the name, for create_custom_workflow the caller's list), however    *)
(* many steps were skipped or cut off, and                                 *)
(* completed_steps <= len(results) <= total_steps.                         *)
(***************************************************************************)
C11_TotalStepsIsResolvedLength ==
    pc = "returned" =>
        /\ ret.total_steps = Len(workflow_steps)
        /\ InExecuteWorkflow =>
               ret.total_steps = Len(get_workflow_definition(config, workflow_name))
        /\ InCustomWorkflow => ret.total_steps = Len(steps_arg)
        /\ ret.completed_steps <= Len(ret.results)
        /\ Len(ret.results) <= ret.total_steps

\* a returned run with a failed step and a step skipped for its dependency
C11_Witness ==
    /\ InExecuteWorkflow
    /\ pc = "returned"
    /\ \E i \in DependentSteps : ~HasEntry(i) /\ ~WasInvoked(i)
    /\ ret.completed_steps < Len(ret.results)
    /\ Len(ret.results) < ret.total_steps

(***************************************************************************)
(* C12: in a returned WorkflowResult error is None exactly when success is *)
(* true, and when success is false error is "Failed steps: n" with         *)
(* n = len(results) - completed_steps.                                     *)
(***************************************************************************)
C12_ErrorNoneIffSuccess ==
    pc = "returned" =>
        /\ (ret.error = "None") <=> ret.success
        /\ ~ret.success =>
               ret.error = "Failed steps: "
                           \o ToString(Len(ret.results) - ret.completed_steps)

(***************************************************************************)
(* C12 as amended: error is None exactly when success is true or results   *)
(* is empty; when some result failed, error is "Failed steps: n" with      *)
(* n = len(results) - completed_steps.                                     *)
(***************************************************************************)
C12_ErrorNoneIffNoFailedStep ==
    pc = "returned" =>
        /\ (ret.error = "None") <=> (ret.success \/ Len(ret.results) = 0)
        /\ (\E i \in 1..Len(ret.results) : ~ret.results[i].success) =>
               ret.error = "Failed steps: "
                           \o ToString(Len(ret.results) - ret.completed_steps)

\* a returned result with one success and one failure: "Failed steps: 1"
C12_Witness ==
    /\ pc = "returned"
    /\ Len(ret.results) = 2
    /\ ret.completed_steps = 1
    /\ ~ret.success
    /\ ret.error = "Failed steps: 1"

(***************************************************************************)
(* C13: in create_custom_workflow step i (i > 0) depends on the agent type *)
(* of step i-1 and the dependency is enforced: the agent of step i is      *)
(* invoked, and a result recorded for it, only if an earlier result whose  *)
(* agent_type is steps[i-1] succeeded.                                     *)
(***************************************************************************)
C13_CustomWorkflowEnforcesDependencies ==
    [][ ( /\ InCustomWorkflow
          /\ pc = "loop"
          /\ idx > 1
          /\ \/ Len(invocations') > Len(invocations)
             \/ Len(results') > Len(results) )
        => /\ workflow_steps[idx].depends_on = <<steps_arg[idx - 1]>>
           /\ SucceededBefore(steps_arg[idx - 1], Len(results) + 1) ]_vars

(***************************************************************************)
(* C14: in create_custom_workflow a failed result of a plan step ends the  *)
(* loop: it is the last entry of results and no agent is invoked after it. *)
(***************************************************************************)
C14_CustomWorkflowAbortsOnPlanFailure ==
    InCustomWorkflow =>
        \A k \in 1..Len(results) :
            (results[k].agent_type = "plan" /\ ~results[k].success) =>
                /\ k = Len(results)
                /\ Len(invocations) = k
                /\ pc \in {"after_loop", "returned"}

\* the text the per-agent-type template puts before the main task
TemplatePrefix(agent_type) ==
    CASE agent_type = "plan"   -> "Create a detailed plan for: "
      [] agent_type = "code"   -> "Implement the following: "
      [] agent_type = "test"   -> "Create comprehensive tests for: "
      [] agent_type = "review" -> "Review the implementation of: "

(***************************************************************************)
(* C15: in create_custom_workflow the task string every agent receives is  *)
(* exactly the caller's task text, with no per-agent-type template; in     *)
(* execute_workflow it is the templated task.                              *)
(***************************************************************************)
C15_CustomWorkflowPassesRawTask ==
    \A k \in 1..Len(invocations) :
        /\ InCustomWorkflow => invocations[k].task = task
        /\ InExecuteWorkflow =>
               invocations[k].task = TemplatePrefix(invocations[k].agent_type) \o task

(***************************************************************************)
(* C15 as amended: in create_custom_workflow, as in execute_workflow, the  *)
(* task string every agent receives is the per-agent-type templated task   *)
(* (for plan, "Create a detailed plan for: " followed by the caller's      *)
(* task text).                                                             *)
(***************************************************************************)
C15_EveryStepGetsTemplatedTask ==
    (InCustomWorkflow \/ InExecuteWorkflow) =>
        \A k \in 1..Len(invocations) :
            /\ invocations[k].task = TemplatePrefix(invocations[k].agent_type) \o task
            /\ invocations[k].task # task

\* a custom workflow whose plan and code agents were both invoked
C15_Witness ==
    /\ InCustomWorkflow
    /\ pc = "returned"
    /\ Len(invocations) = 2
    /\ invocations[1].task = "Create a detailed plan for: " \o task
    /\ invocations[2].task = "Implement the following: " \o task

(***************************************************************************)
(* C16: the caller's stream flag reaches every agent.execute invocation    *)
(* unchanged, in execute_workflow and in create_custom_workflow.           *)
(***************************************************************************)
C16_StreamIsForwarded ==
    (InCustomWorkflow \/ InExecuteWorkflow) =>
        \A k \in 1..Len(invocations) : invocations[k].stream = stream

(***************************************************************************)
(* C17: in an execute_workflow run of feature-dev in which the plan step   *)
(* succeeded with output P before the code step, the context the code      *)
(* agent receives contains implementation_plan = P.                        *)
(***************************************************************************)
C17_CodeReceivesImplementationPlan ==
    (InExecuteWorkflow /\ workflow_name = "feature-dev") =>
        \A k \in 1..Len(invocations) :
            invocations[k].agent_type = "code" =>
                \A j \in 1..(k - 1) :
                    (results[j].agent_type = "plan" /\ results[j].success) =>
                        /\ "implementation_plan" \in DOMAIN invocations[k].context
                        /\ invocations[k].context["implementation_plan"] = results[j].output

\* order and dependency edges of the built-in templates
TemplateEdges(name) ==
    CASE name \in {"feature-dev", "refactor"} ->
           << [agent_type |-> "plan", depends_on |-> <<>>],
              [agent_type |-> "code", depends_on |-> <<"plan">>],
              [agent_type |-> "test", depends_on |-> <<"code">>],
              [agent_type |-> "review", depends_on |-> <<"code">>] >>
      [] name = "bug-fix" ->
           << [agent_type |-> "plan", depends_on |-> <<>>],
              [agent_type |-> "code", depends_on |-> <<"plan">>],
              [agent_type |-> "test", depends_on |-> <<"code">>] >>
      [] name = "code-review" ->
           << [agent_type |-> "review", depends_on |-> <<>>] >>

StepEdges(steps) ==
    [i \in 1..Len(steps) |->
        [agent_type |-> steps[i].agent_type, depends_on |-> steps[i].depends_on]]

(***************************************************************************)
(* C18: the step list execute_workflow runs for a built-in name has the    *)
(* template's order and dependency edges.                                  *)
(***************************************************************************)
C18_BuiltinNamesRunTemplateSteps ==
    ( /\ InExecuteWorkflow
      /\ workflow_name \in {"feature-dev", "bug-fix", "code-review", "refactor"} )
    => StepEdges(workflow_steps) = TemplateEdges(workflow_name)

\* the fields of a step the resolver sets
StepDefinition(steps) ==
    [i \in 1..Len(steps) |->
        [agent_type |-> steps[i].agent_type, description |-> steps[i].description,
         depends_on |-> steps[i].depends_on,
         context_mapping |-> steps[i].context_mapping]]

(***************************************************************************)
(* C19: when the configuration returns a non-empty list for the name, the  *)
(* steps execute_workflow runs are exactly those agent types in order,     *)
(* each with description "Execute <type> agent", no depends_on and no      *)
(* context_mapping, whether or not a built-in template has the name; the   *)
(* built-in template is run only when the configuration returns the empty  *)
(* list.                                                                   *)
(***************************************************************************)
C19_ConfiguredStepsTakePriority ==
    InExecuteWorkflow =>
        LET configured == get_workflow_steps(config, workflow_name) IN
        IF configured # <<>>
        THEN /\ Len(workflow_steps) = Len(configured)
             /\ \A i \in 1..Len(configured) :
                    /\ workflow_steps[i].agent_type = configured[i]
                    /\ workflow_steps[i].description
                           = "Execute " \o configured[i] \o " agent"
                    /\ workflow_steps[i].depends_on = <<>>
                    /\ workflow_steps[i].context_mapping = EmptyDict
        ELSE StepDefinition(workflow_steps) = StepDefinition(BuiltinWorkflows(workflow_name))

\* feature-dev is run from a configured list that differs from its template
C19_Witness ==
    /\ InExecuteWorkflow
    /\ workflow_name = "feature-dev"
    /\ pc = "returned"
    /\ get_workflow_steps(config, workflow_name) = <<"code", "plan", "review">>
    /\ StepTypes(workflow_steps) = <<"code", "plan", "review">>
    /\ Len(invocations) = 3

\* the context key under which the output of an agent type is stored
OutputKey(agent_type) == agent_type \o "_output"

(***************************************************************************)
(* C20: within one execution, after a step of agent type T has succeeded   *)
(* with output O, the context every later attempted step receives holds    *)
(* T_output (the output of the latest such success) and every key of the   *)
(* initial context; no step receives an output key of a type that has not  *)
(* succeeded before it.                                                    *)
(***************************************************************************)
C20_ContextFlowsForward ==
    (InExecuteWorkflow \/ InCustomWorkflow) =>
        \A k \in 1..Len(invocations) :
            LET c == invocations[k].context IN
            /\ DOMAIN initial_context_copy \subseteq DOMAIN c
            /\ \A j \in 1..(k - 1) :
                   results[j].success =>
                       /\ OutputKey(results[j].agent_type) \in DOMAIN c
                       /\ \E l \in j..(k - 1) :
                              /\ results[l].success
                              /\ c[OutputKey(results[j].agent_type)] = results[l].output
            /\ \A T \in AgentTypes :
                   OutputKey(T) \in DOMAIN c => SucceededBefore(T, k)

\* a is a subsequence of b: a is b with some elements left out
RECURSIVE IsSubsequence(_, _)
IsSubsequence(a, b) ==
    IF Len(a) = 0 THEN TRUE
    ELSE IF Len(b) = 0 THEN FALSE
    ELSE IF Head(a) = Head(b) THEN IsSubsequence(Tail(a), Tail(b))
    ELSE IsSubsequence(a, Tail(b))

(***************************************************************************)
(* C21: results records exactly the attempted steps, in order: the agent   *)
(* types of its entries are a subsequence of the resolved step list, every *)
(* step whose agent was invoked has exactly one entry (the k-th entry      *)
(* belongs to the k-th invocation), and an agent is invoked only when the  *)
(* result of the attempt before it has been recorded.                      *)
(***************************************************************************)
C21_ResultsRecordAttemptedSteps ==
    (InExecuteWorkflow \/ InCustomWorkflow) =>
        /\ IsSubsequence([k \in 1..Len(results) |-> results[k].agent_type],
                         StepTypes(workflow_steps))
        /\ Len(results) = Len(invocations)
        /\ \A k \in 1..Len(results) :
               results[k].agent_type = invocations[k].agent_type

(***************************************************************************)
(* C22: the public methods work on a copy of the caller's context: when    *)
(* the call has returned, the object the caller passed is as it was passed *)
(* (no main_task, directory, <type>_output or <type>_result key added).    *)
(***************************************************************************)
C22_CallerContextIsUntouched ==
    ((InExecuteWorkflow \/ InCustomWorkflow) /\ pc = "returned") =>
        caller_context = passed_context

\* keys the first execution wrote into its working context
WrittenByFirst ==
    DOMAIN kept.final_context
        \ (DOMAIN kept.initial_context \cup {"main_task", "directory"})

(***************************************************************************)
(* C23: successive executions on one Workflow instance are isolated: the   *)
(* working context of the second execution starts with no key the first    *)
(* execution wrote, and the initial_context and final_context snapshots of *)
(* the first result stay as they were throughout the second execution.     *)
(***************************************************************************)
C23_SuccessiveExecutionsAreIsolated ==
    [][ kept.set =>
          /\ (pc = "idle" /\ pc' = "loop") =>
                 DOMAIN current_context' \cap WrittenByFirst = {}
          /\ pc' # "idle" =>
                 /\ kept'.initial_context = kept.initial_context
                 /\ kept'.final_context = kept.final_context ]_vars

ResultKey(agent_type) == agent_type \o "_result"

(***************************************************************************)
(* C24: a step whose result has success false leaves the working context   *)
(* exactly as it was before the step; the working context changes during   *)
(* the loop only when a successful result is recorded, and that step       *)
(* stores the result under <type>_result and its output under              *)
(* <type>_output (the value there is result.output unless the result's own *)
(* context carries that key and is merged over it, see C26).               *)
(***************************************************************************)
C24_OnlySuccessWritesContext ==
    [][ pc = "loop" =>
          /\ current_context' # current_context =>
                 /\ Len(results') = Len(results) + 1
                 /\ results'[Len(results')].success
          /\ Len(results') = Len(results) + 1 =>
                 LET r == results'[Len(results')] IN
                 IF ~r.success
                 THEN current_context' = current_context
                 ELSE /\ ResultKey(r.agent_type) \in DOMAIN current_context'
                      /\ OutputKey(r.agent_type) \in DOMAIN current_context'
                      /\ OutputKey(r.agent_type) \notin DOMAIN r.context =>
                             current_context'[OutputKey(r.agent_type)] = r.output
                      /\ ResultKey(r.agent_type) \notin DOMAIN r.context =>
                             current_context'[ResultKey(r.agent_type)] = r ]_vars

\* a success followed by a failure: the context holds what the first step
\* wrote and nothing of the second
C24_Witness ==
    /\ pc = "loop"
    /\ Len(results) = 2
    /\ results[1].success
    /\ ~results[2].success
    /\ results[1].agent_type # results[2].agent_type
    /\ OutputKey(results[1].agent_type) \in DOMAIN current_context
    /\ OutputKey(results[2].agent_type) \notin DOMAIN current_context
    /\ ResultKey(results[2].agent_type) \notin DOMAIN current_context

\* destinations of the step's context_mapping whose source is in ctx
MappedKeys(step, ctx) ==
    {step.context_mapping[src] :
        src \in {x \in DOMAIN step.context_mapping : x \in DOMAIN ctx}}

(***************************************************************************)
(* C25: the context remap of a step touches only the copy handed to the    *)
(* agent.  When a step's agent is invoked, the agent's context is the      *)
(* working context plus, for every (src, dst) of context_mapping with src  *)
(* present, dst with the working context's value of src; a mapping whose   *)
(* src is absent adds nothing.  The working context keeps every key and    *)
(* value it had, and gains dst only if the step's own result carries it.   *)
(***************************************************************************)
C25_RemapOnlyAffectsAgentCopy ==
    [][ (pc = "loop" /\ Len(invocations') = Len(invocations) + 1) =>
          LET step == workflow_steps[idx]
              c == invocations'[Len(invocations')].context
          IN  /\ DOMAIN c = DOMAIN current_context \cup MappedKeys(step, current_context)
              /\ \A src \in DOMAIN step.context_mapping :
                     src \in DOMAIN current_context =>
                         c[step.context_mapping[src]] = current_context[src]
              /\ \A k \in DOMAIN current_context \ MappedKeys(step, current_context) :
                     c[k] = current_context[k]
              /\ DOMAIN current_context \subseteq DOMAIN current_context'
              /\ \A dst \in MappedKeys(step, current_context) \ DOMAIN current_context :
                     dst \in DOMAIN current_context' =>
                         /\ Len(results') = Len(results) + 1
                         /\ results'[Len(results')].success
                         /\ dst \in DOMAIN results'[Len(results')].context ]_vars

\* feature-dev from its template: the code agent was handed
\* implementation_plan, failed, and the working context has no such key
C25_Witness ==
    /\ InExecuteWorkflow
    /\ workflow_name = "feature-dev"
    /\ Len(results) = 2
    /\ results[2].agent_type = "code" /\ ~results[2].success
    /\ "implementation_plan" \in DOMAIN invocations[2].context
    /\ invocations[2].context["implementation_plan"] = current_context["plan_output"]
    /\ "implementation_plan" \notin DOMAIN current_context
    /\ "plan_output" \in DOMAIN invocations[2].context

(***************************************************************************)
(* C26: when a successful result is recorded, no key of result.context     *)
(* that begins with "_" is copied into the working context, and every      *)
(* other key of result.context is in the working context afterwards with   *)
(* the result's value, whatever was there before (the <type>_output just   *)
(* written included).                                                      *)
(***************************************************************************)
C26_MergeSkipsPrivateKeys ==
    [][ ( /\ pc = "loop"
          /\ Len(results') = Len(results) + 1
          /\ results'[Len(results')].success ) =>
          LET r == results'[Len(results')] IN
          /\ "_private" \notin DOMAIN current_context'
          /\ \A k \in DOMAIN r.context \ {"_private"} :
                 /\ k \in DOMAIN current_context'
                 /\ current_context'[k] = r.context[k] ]_vars

\* the second plan step of a custom list returned the context it was given
\* with keys added: the public key was merged, the private one was not, and
\* the echoed plan_output replaced the output just written
C26_Witness ==
    /\ InCustomWorkflow
    /\ Len(results) = 2
    /\ results[2].success
    /\ results[2].agent_type = "plan"
    /\ "_private" \in DOMAIN results[2].context
    /\ "_private" \notin DOMAIN current_context
    /\ current_context["extra_info"] = results[2].context["extra_info"]
    /\ "plan_output" \in DOMAIN results[2].context
    /\ current_context["plan_output"] = results[2].context["plan_output"]
    /\ current_context["plan_output"] # results[2].output

\* the agent call made for step i returned without raising
AgentReturnedFor(i) ==
    IF InCustomWorkflow
    THEN i <= Len(invocations) /\ ~invocations[i].raised
    ELSE \E k \in 1..Len(invocations) :
             /\ invocations[k].agent_type = workflow_steps[i].agent_type
             /\ ~invocations[k].raised

C28_SummaryAgreesWithSuccess ==
    pc = "returned" =>
        /\ (summary_status(ret) = "Status: Workflow completed successfully")
               <=> ret.success
        /\ ~ret.success =>
               summary_status(ret) = "Status: Workflow completed with "
                                     \o ToString(failed_steps(ret)) \o " failures"

(***************************************************************************)
(* C29: however the threads' _cache_response, _get_cached_response and     *)
(* clear_cache calls interleave, the shared cache never holds more than    *)
(* _cache_size entries, and a _cache_response call that finds the cache    *)
(* full deletes an entry whose timestamp is the oldest before it stores.   *)
(***************************************************************************)
C29_CacheIsBoundedAndEvictsOldest ==
    /\ [](Cardinality(DOMAIN response_cache) <= cache_size)
    /\ [][\A t \in Threads :
            (/\ thread_pc[t] = "cache_response_check"
             /\ thread_pc'[t] = "cache_response_store"
             /\ Cardinality(DOMAIN response_cache) >= cache_size)
            => \E k \in DOMAIN response_cache :
                  /\ response_cache' = Delete(response_cache, k)
                  /\ \A j \in DOMAIN response_cache :
                        response_cache[k].timestamp <= response_cache[j].timestamp]_vars

\* a thread has just evicted the older of two entries of a full cache and
\* is about to store its own
C29_Witness ==
    \E t \in Threads :
        /\ thread_pc[t] = "cache_response_store"
        /\ oldest_key[t] # ""
        /\ oldest_key[t] \notin DOMAIN response_cache
        /\ Cardinality(DOMAIN response_cache) = cache_size - 1
        /\ \E j \in DOMAIN response_cache : response_cache[j].timestamp > 0

(***************************************************************************)
(* C30: after optimize_for_hardware(ram_gb, cpu_cores) with ram_gb >= 0    *)
(* and cpu_cores >= 1, max_concurrent_agents is at least 1 and at most 4;  *)
(* below 8 GB it is 1, from 8 to under 16 GB it is 2.                      *)
(***************************************************************************)
C30_AtLeastOneConcurrentAgent ==
    (ram_gb >= 0 /\ cpu_cores >= 1) =>
        /\ max_concurrent_agents >= 1
        /\ max_concurrent_agents <= 4
        /\ ram_gb < 8 => max_concurrent_agents = 1
        /\ (ram_gb >= 8 /\ ram_gb < 16) => max_concurrent_agents = 2

====
